---- MODULE Spec2Model ----
(***************************************************************************)
(* A model of the RFC 5322 date-time grammar (src/src/parsing/time.rs) and *)
(* of MIME entity resolution (src/src/mime.rs) of the email-parser crate.  *)
(*                                                                         *)
(* Byte slices are sequences of byte values 0..255.  A grammar rule is an  *)
(* operator from an input slice to a Res: Ok(rest, val), Err(kind, msg),   *)
(* or Panic(msg) where the Rust code would abort (slice index out of       *)
(* range, integer overflow).                                               *)
(***************************************************************************)
EXTENDS Integers, Sequences, FiniteSets, TLC

(***************************************************************************)
(* Bytes                                                                   *)
(***************************************************************************)
\* input.get(n..) / &input[n..] once n <= len is known.
Drop(input, n) == SubSeq(input, n + 1, Len(input))

\* input.get(..n) once n <= len is known.
Take(input, n) == SubSeq(input, 1, n)

\* input.starts_with(lit)
StartsWith(input, lit) ==
  Len(input) >= Len(lit) /\ Take(input, Len(lit)) = lit

(***************************************************************************)
(* Error and Res (src/src/error.rs)                                        *)
(***************************************************************************)
Ok(rest, val) == [kind |-> "ok", rest |-> rest, val |-> val]

Known(msg) == [kind |-> "err", err |-> "Known", msg |-> msg]

TagError(msg) == [kind |-> "err", err |-> "TagError", msg |-> msg]

\* The process aborts: index out of range, arithmetic overflow.
Panic(msg) == [kind |-> "panic", msg |-> msg]

IsOk(r) == r.kind = "ok"

IsErr(r) == r.kind = "err"

IsPanic(r) == r.kind = "panic"

None == [some |-> FALSE]

Some(v) == [some |-> TRUE, v |-> v]

Unit == "()"

(***************************************************************************)
(* Sequencing.  A rule is written as the Rust code is: each step names the *)
(* result of a sub-rule and goes on with it.                               *)
(***************************************************************************)
\* let v = e; body
Let(v, body(_)) == body(v)

\* let (rest, val) = r?; body : whatever is not Ok is returned as it is
Try(r, body(_)) == IF IsOk(r) THEN body(r) ELSE r

\* r.map_err(|_e| e)
MapErr(r, e) == IF IsErr(r) THEN e ELSE r

(***************************************************************************)
(* Combinator primitives.  Their code is not part of the sources at hand;  *)
(* they are modelled from the specification (section 4.1) and RFC 5322.    *)
(***************************************************************************)
\* "0".."9"
is_digit(b) == b >= 48 /\ b <= 57

\* space or horizontal tab
is_wsp(b) == b = 32 \/ b = 9

\* literal match
tag(input, lit) ==
  IF StartsWith(input, lit)
    THEN Ok(Drop(input, Len(lit)), Unit)
    ELSE TagError("Tags are not matching")

\* What optional makes of a rule's result r on input: on failure the
\* original input and no value.
Rewind(input, r) ==
  CASE IsOk(r) -> Ok(r.rest, Some(r.val))
    [] IsErr(r) -> Ok(input, None)
    [] OTHER -> r

\* Applies a rule; on failure gives back the original input and no value.
optional(input, rule(_)) == Rewind(input, rule(input))

\* Length of the longest prefix of input whose bytes all satisfy pred.
RECURSIVE PrefixLen(_, _, _)
PrefixLen(input, pred(_), n) ==
  IF n < Len(input) /\ pred(input[n + 1])
    THEN PrefixLen(input, pred, n + 1)
    ELSE n

\* zero-or-more bytes while the predicate holds
take_while(input, pred(_)) ==
  Let(PrefixLen(input, pred, 0), LAMBDA n : Ok(Drop(input, n), Take(input, n)))

\* one-or-more bytes while the predicate holds
take_while1(input, pred(_)) ==
  Let(PrefixLen(input, pred, 0), LAMBDA n :
    IF n = 0
      THEN Known("Expected at least one character matching the condition")
      ELSE Ok(Drop(input, n), Take(input, n)))

\* a single decimal digit, as a u8
digit(input) ==
  IF Len(input) >= 1 /\ is_digit(input[1])
    THEN Ok(Drop(input, 1), input[1] - 48)
    ELSE Known("Invalid digit")

\* exactly two decimal digits, as a u8
two_digits(input) ==
  Try(digit(input), LAMBDA d1 :
  Try(digit(d1.rest), LAMBDA d2 :
  Ok(d2.rest, d1.val * 10 + d2.val)))

\* [*WSP CRLF] of folding whitespace
fws_fold(input) ==
  Try(take_while(input, is_wsp), LAMBDA w :
  Try(tag(w.rest, <<13, 10>>), LAMBDA c :
  Ok(c.rest, w.val)))

\* folding whitespace: FWS = ([*WSP CRLF] 1*WSP)
fws(input) ==
  Try(optional(input, fws_fold), LAMBDA f :
  Try(take_while1(f.rest, is_wsp), LAMBDA w :
  Ok(w.rest, Unit)))

\* ctext of RFC 5322: printable US-ASCII except "(", ")" and the backslash
is_ctext(b) == b >= 33 /\ b <= 126 /\ b \notin {40, 41, 92}

\* comment = "(" *([FWS] ccontent) [FWS] ")" with
\* ccontent = ctext / quoted-pair / comment; comment_body is what follows the
\* opening parenthesis, comment_item what follows the [FWS] in it.
RECURSIVE comment_body(_), comment_item(_)
comment_body(input) ==
  Try(optional(input, fws), LAMBDA f : comment_item(f.rest))

comment_item(i) ==
  IF Len(i) = 0 THEN Known("Expected end of comment") ELSE
  CASE i[1] = 41 -> Ok(Drop(i, 1), Unit)
    [] i[1] = 40 ->
         Try(comment_body(Drop(i, 1)), LAMBDA c : comment_body(c.rest))
    [] i[1] = 92 /\ Len(i) >= 2 -> comment_body(Drop(i, 2))
    [] is_ctext(i[1]) -> comment_body(Drop(i, 1))
    [] OTHER -> Known("Invalid character in comment")

comment(input) ==
  Try(tag(input, <<40>>), LAMBDA t : comment_body(t.rest))

\* [FWS] comment
fws_comment(input) ==
  Try(optional(input, fws), LAMBDA f : comment(f.rest))

\* 1*([FWS] comment): the input left after the run and the number of comments
RECURSIVE comments_run(_, _)
comments_run(input, n) ==
  Let(fws_comment(input), LAMBDA c :
    IF IsOk(c) THEN comments_run(c.rest, n + 1) ELSE [rest |-> input, n |-> n])

\* comment and folding whitespace: CFWS = (1*([FWS] comment) [FWS]) / FWS
cfws(input) ==
  Let(comments_run(input, 0), LAMBDA r :
    IF r.n >= 1
      THEN Try(optional(r.rest, fws), LAMBDA f : Ok(f.rest, Unit))
      ELSE fws(input))

(***************************************************************************)
(* Integers of the date-time grammar                                       *)
(***************************************************************************)
\* The largest u8 (the type of the day, hour, minute and second values).
U8_MAX == 255

\* usize::MAX of a 64-bit target, 2^64 - 1, in decimal digits.  A usize is
\* held as its decimal digits without leading zeros: it does not fit the
\* integers of the model checker.
USIZE_MAX == <<1, 8, 4, 4, 6, 7, 4, 4, 0, 7, 3, 7, 0, 9, 5, 5, 1, 6, 1, 5>>

RECURSIVE StripZeros(_)
StripZeros(ds) ==
  IF Len(ds) > 1 /\ ds[1] = 0 THEN StripZeros(Tail(ds)) ELSE ds

\* a < b for two naturals given by their digits without leading zeros
NatLess(a, b) ==
  \/ Len(a) < Len(b)
  \/ /\ Len(a) = Len(b)
     /\ \E i \in 1..Len(a) :
          /\ a[i] < b[i]
          /\ \A j \in 1..(i - 1) : a[j] = b[j]

\* The usize a small integer n is.
RECURSIVE Usize(_)
Usize(n) == IF n < 10 THEN <<n>> ELSE Append(Usize(n \div 10), n % 10)

\* str::parse::<usize>() of as_str(bytes): the value of the decimal digits,
\* an error when a byte is no digit, when there is none, or when the value is
\* above usize::MAX.
parse_usize(bytes) ==
  IF bytes = <<>> \/ \E i \in DOMAIN bytes : ~is_digit(bytes[i])
    THEN [kind |-> "err", err |-> "ParseIntError"]
    ELSE Let(StripZeros([i \in DOMAIN bytes |-> bytes[i] - 48]), LAMBDA v :
           IF NatLess(USIZE_MAX, v)
             THEN [kind |-> "err", err |-> "ParseIntError"]
             ELSE [kind |-> "ok", val |-> v])

(***************************************************************************)
(* The date-time grammar (src/src/parsing/time.rs)                         *)
(***************************************************************************)
\* [u8]::to_ascii_lowercase: "A".."Z" become "a".."z"
to_ascii_lowercase(bytes) ==
  [i \in DOMAIN bytes |->
     IF bytes[i] >= 65 /\ bytes[i] <= 90 THEN bytes[i] + 32 ELSE bytes[i]]

\* The match arms of day_name: the lower-case letters and the Day.
DayNames ==
  << <<<<109, 111, 110>>, "Monday">>,     \* b"mon"
     <<<<116, 117, 101>>, "Tuesday">>,    \* b"tue"
     <<<<119, 101, 100>>, "Wednesday">>,  \* b"wed"
     <<<<116, 104, 117>>, "Thursday">>,   \* b"thu"
     <<<<102, 114, 105>>, "Friday">>,     \* b"fri"
     <<<<115, 97, 116>>, "Saturday">>,    \* b"sat"
     <<<<115, 117, 110>>, "Sunday">> >>   \* b"sun"

\* The match arms of month: the lower-case letters and the Month.
MonthNames ==
  << <<<<106, 97, 110>>, "January">>,     \* b"jan"
     <<<<102, 101, 98>>, "February">>,    \* b"feb"
     <<<<109, 97, 114>>, "March">>,       \* b"mar"
     <<<<97, 112, 114>>, "April">>,       \* b"apr"
     <<<<109, 97, 121>>, "May">>,         \* b"may"
     <<<<106, 117, 110>>, "June">>,       \* b"jun"
     <<<<106, 117, 108>>, "July">>,       \* b"jul"
     <<<<97, 117, 103>>, "August">>,      \* b"aug"
     <<<<115, 101, 112>>, "September">>,  \* b"sep"
     <<<<111, 99, 116>>, "October">>,     \* b"oct"
     <<<<110, 111, 118>>, "November">>,   \* b"nov"
     <<<<100, 101, 99>>, "December">> >>  \* b"dec"

\* match letters.as_slice() { arms, _ => Err(Known(msg)) }
MatchName(arms, letters, rest, msg) ==
  IF \E i \in DOMAIN arms : arms[i][1] = letters
    THEN Ok(rest, arms[CHOOSE i \in DOMAIN arms : arms[i][1] = letters][2])
    ELSE Known(msg)

\* A day_name that lowers the case of the whole input, not of the 3 letters.
day_name_lowered(input) ==
  IF Len(input) >= 3
    THEN MatchName(DayNames, Take(to_ascii_lowercase(input), 3),
                   Drop(to_ascii_lowercase(input), 3), "Not a valid day_name")
    ELSE Known("Expected day_name, but characters are missing (at least 3).")

day_name(input) ==
  IF Len(input) >= 3
    THEN MatchName(DayNames, to_ascii_lowercase(Take(input, 3)), Drop(input, 3),
                   "Not a valid day_name")
    ELSE Known("Expected day_name, but characters are missing (at least 3).")

\* A month whose arms for b"jun" and b"jul" are swapped.
month_swapped(input) ==
  IF Len(input) >= 3
    THEN MatchName([MonthNames EXCEPT ![6][2] = "July", ![7][2] = "June"],
                   to_ascii_lowercase(Take(input, 3)), Drop(input, 3),
                   "Not a valid month")
    ELSE Known("Expected month, but characters are missing (at least 3).")

month(input) ==
  IF Len(input) >= 3
    THEN MatchName(MonthNames, to_ascii_lowercase(Take(input, 3)), Drop(input, 3),
                   "Not a valid month")
    ELSE Known("Expected month, but characters are missing (at least 3).")

day_of_week(input) ==
  Try(optional(input, fws), LAMBDA f :
  Try(day_name(f.rest), LAMBDA d :
  Try(tag(d.rest, <<44>>), LAMBDA c :            \* b","
  Ok(c.rest, d.val))))

\* A year that rejects 1990 itself (year <= 1990).
year_after_1990(input) ==
  Try(fws(input), LAMBDA f1 :
  Try(MapErr(take_while1(f1.rest, is_digit), Known("no digit in year")), LAMBDA t :
  IF Len(t.val) < 4
    THEN Known("year is expected to have 4 digits or more") ELSE
  Try(MapErr(parse_usize(t.val), Known("Failed to parse year")), LAMBDA y :
  IF ~NatLess(Usize(1990), y.val) THEN Known("year must be after 1990") ELSE
  Try(fws(t.rest), LAMBDA f2 :
  Ok(f2.rest, y.val)))))

year(input) ==
  Try(fws(input), LAMBDA f1 :
  Try(MapErr(take_while1(f1.rest, is_digit), Known("no digit in year")), LAMBDA t :
  IF Len(t.val) < 4
    THEN Known("year is expected to have 4 digits or more") ELSE
  Try(MapErr(parse_usize(t.val), Known("Failed to parse year")), LAMBDA y :
  IF NatLess(y.val, Usize(1990)) THEN Known("year must be after 1990") ELSE
  Try(fws(t.rest), LAMBDA f2 :
  Ok(f2.rest, y.val)))))

\* day: the value n read so far and the input left after it; the sum
\* day * 10 + digit is made in a u8.
day_check(n, input) ==
  IF n > U8_MAX THEN Panic("attempt to add with overflow") ELSE
  IF n > 31 THEN Known("day must be less than 31") ELSE
  Try(fws(input), LAMBDA f2 : Ok(f2.rest, n))

day(input) ==
  Try(optional(input, fws), LAMBDA f :
  Try(digit(f.rest), LAMBDA d1 :
  Let(digit(d1.rest), LAMBDA d2 :
  CASE IsOk(d2) -> day_check(d1.val * 10 + d2.val, d2.rest)
    [] IsErr(d2) -> day_check(d1.val, d1.rest)
    [] OTHER -> d2)))

\* A seconds group that allows no leap second (seconds > 59).
seconds_no_leap(h, m) ==
  IF StartsWith(m.rest, <<58>>)
    THEN Let(two_digits(Drop(m.rest, 1)), LAMBDA s :
           CASE IsOk(s) ->
                  IF s.val > 59
                    THEN Known("There is only 60 seconds in a minute")
                    ELSE Ok(s.rest, <<h.val, m.val, s.val>>)
             [] IsErr(s) -> Ok(m.rest, <<h.val, m.val, 0>>)
             [] OTHER -> s)
    ELSE Ok(m.rest, <<h.val, m.val, 0>>)

\* A seconds group whose two digits are mandatory once the colon is there
\* (two_digits(new_input)?).
seconds_strict(h, m) ==
  IF StartsWith(m.rest, <<58>>)
    THEN Try(two_digits(Drop(m.rest, 1)), LAMBDA s :
           IF s.val > 60
             THEN Known("There is only 60 seconds in a minute")
             ELSE Ok(s.rest, <<h.val, m.val, s.val>>))
    ELSE Ok(m.rest, <<h.val, m.val, 0>>)

\* time_of_day from its optional seconds group on: h and m are the results
\* of the hour and of the minutes.
seconds(h, m) ==
  IF StartsWith(m.rest, <<58>>)                  \* b":"
    THEN IF 1 > Len(m.rest)
           THEN Panic("range start index 1 out of range")
           ELSE Let(two_digits(Drop(m.rest, 1)), LAMBDA s :
                  CASE IsOk(s) ->
                         IF s.val > 60
                           THEN Known("There is only 60 seconds in a minute")
                           ELSE Ok(s.rest, <<h.val, m.val, s.val>>)
                    [] IsErr(s) -> Ok(m.rest, <<h.val, m.val, 0>>)
                    [] OTHER -> s)
    ELSE Ok(m.rest, <<h.val, m.val, 0>>)

time_of_day(input) ==
  Try(two_digits(input), LAMBDA h :
  IF h.val > 23 THEN Known("There is only 24 hours in a day") ELSE
  Try(tag(h.rest, <<58>>), LAMBDA c :            \* b":"
  Try(two_digits(c.rest), LAMBDA m :
  IF m.val > 59 THEN Known("There is only 60 minutes per hour") ELSE
  seconds(h, m))))

\* A zone that checks its hour offset as an hour of the day (hours > 23).
zone_sign_hours_checked(i) ==
  IF Len(i) = 0 THEN Known("Expected more characters in zone") ELSE
  IF i[1] \notin {43, 45}
    THEN Known("Invalid sign character in zone") ELSE
  Try(two_digits(Drop(i, 1)), LAMBDA h :
  Try(two_digits(h.rest), LAMBDA m :
  IF h.val > 23 \/ m.val > 59 THEN Known("zone minutes out of range") ELSE
  Ok(m.rest, <<i[1] = 43, h.val, m.val>>)))

\* A zone that reads its sign as input.get(0) == Some(&b'+') and re-slices
\* without a look at the length.
zone_sign_unchecked(i) ==
  IF 1 > Len(i) THEN Panic("range start index 1 out of range") ELSE
  Try(two_digits(Drop(i, 1)), LAMBDA h :
  Try(two_digits(h.rest), LAMBDA m :
  IF m.val > 59 THEN Known("zone minutes out of range") ELSE
  Ok(m.rest, <<i[1] = 43, h.val, m.val>>)))

\* zone from its sign on: i is the input after the folding whitespace.
zone_sign(i) ==
  IF Len(i) = 0 THEN Known("Expected more characters in zone") ELSE
  IF i[1] \notin {43, 45}                        \* b'+', b'-'
    THEN Known("Invalid sign character in zone") ELSE
  IF 1 > Len(i) THEN Panic("range start index 1 out of range") ELSE
  Try(two_digits(Drop(i, 1)), LAMBDA h :
  Try(two_digits(h.rest), LAMBDA m :
  IF m.val > 59 THEN Known("zone minutes out of range") ELSE
  Ok(m.rest, <<i[1] = 43, h.val, m.val>>)))

zone(input) ==
  Try(fws(input), LAMBDA f : zone_sign(f.rest))

time(input) ==
  Try(time_of_day(input), LAMBDA t :
  Try(zone(t.rest), LAMBDA z :
  Ok(z.rest, <<t.val, z.val>>)))

date(input) ==
  Try(day(input), LAMBDA d :
  Try(month(d.rest), LAMBDA m :
  Try(year(m.rest), LAMBDA y :
  Ok(y.rest, <<d.val, m.val, y.val>>))))

\* A date_time whose weekday is mandatory (day_of_week(input)?).
date_time_weekday_required(input) ==
  Try(day_of_week(input), LAMBDA w :
  Try(date(w.rest), LAMBDA d :
  Try(time(d.rest), LAMBDA t :
  Try(optional(t.rest, cfws), LAMBDA c :
  Ok(c.rest, <<Some(w.val), d.val, t.val>>)))))

date_time(input) ==
  Try(optional(input, day_of_week), LAMBDA w :
  Try(date(w.rest), LAMBDA d :
  Try(time(d.rest), LAMBDA t :
  Try(optional(t.rest, cfws), LAMBDA c :
  Ok(c.rest, <<w.val, d.val, t.val>>)))))

(***************************************************************************)
(* The MIME data model (src/src/mime.rs)                                   *)
(***************************************************************************)
\* enum MimeType; Other carries the name of an unrecognised type.
MimeTypeTags ==
  {"Text", "Image", "Audio", "Video", "Application", "Message", "Multipart", "Other"}

MimeType(v) == [variant |-> v]

Other(name) == [variant |-> "Other", name |-> name]

\* MimeType::is_composite_type
is_composite_type(mime_type) == mime_type.variant \in {"Message", "Multipart"}

\* struct RawEntity (the disposition field is behind a feature and left out)
RawEntity(mime_type, subtype, description, id, parameters, value, additional_headers) ==
  [ mime_type |-> mime_type, subtype |-> subtype, description |-> description,
    id |-> id, parameters |-> parameters, value |-> value,
    additional_headers |-> additional_headers ]

\* enum Entity
Multipart(subtype, content) ==
  [variant |-> "Multipart", subtype |-> subtype, content |-> content]

Text(subtype, value) == [variant |-> "Text", subtype |-> subtype, value |-> value]

Unknown(raw) == [variant |-> "Unknown", raw |-> raw]

\* Result<Entity, Error>
Resolved(e) == [kind |-> "ok", val |-> e]

(***************************************************************************)
(* Entity resolution, crate::parsing::mime::entity::entity.  Its code is   *)
(* not part of the sources at hand; it is modelled from the specification  *)
(* (section 4.4), RFC 2046 (the boundary delimiter lines) and RFC 3629      *)
(* (UTF-8).  The value of a RawEntity has already been decoded from its    *)
(* transfer encoding (mime.rs, RawEntity::value).                          *)
(***************************************************************************)
\* The first position from k on where pat stands in s, 0 when there is none.
RECURSIVE Find(_, _, _)
Find(s, pat, k) ==
  IF k + Len(pat) - 1 > Len(s) THEN 0
  ELSE IF SubSeq(s, k, k + Len(pat) - 1) = pat THEN k
  ELSE Find(s, pat, k + 1)

\* The entity of one section of a multipart body.  The header grammar that
\* reads a section is out of scope: a section is taken as a body without
\* headers, which RFC 2046 makes text/plain.
section_entity(bytes) ==
  RawEntity(MimeType("Text"), "plain", None, None, <<>>, bytes, <<>>)

\* The sections after the delimiter line that ends right before position
\* pos; delim is "--" boundary, parts the sections read so far.
RECURSIVE sections(_, _, _, _)
sections(value, delim, pos, parts) ==
  IF SubSeq(value, pos, pos + 1) = <<45, 45>>    \* the closing "--"
    THEN [kind |-> "ok", val |-> parts]
    ELSE IF SubSeq(value, pos, pos + 1) # <<13, 10>>
      THEN Known("Invalid boundary delimiter line")
      ELSE Let(Find(value, <<13, 10>> \o delim, pos), LAMBDA next :
             IF next = 0 THEN Known("Missing closing boundary") ELSE
             sections(value, delim, next + 2 + Len(delim),
                      Append(parts,
                             section_entity(SubSeq(value, pos + 2, next - 1)))))

\* The body of a multipart entity, split on its boundary delimiter lines.
parse_multipart(value, boundary) ==
  Let(Find(value, <<45, 45>> \o boundary, 1), LAMBDA first :
    IF first = 0 THEN Known("Boundary not found")
    ELSE sections(value, <<45, 45>> \o boundary, first + 2 + Len(boundary), <<>>))

\* A continuation byte of UTF-8
is_cont(b) == b >= 128 /\ b <= 191

\* Strict UTF-8 (RFC 3629): the code points of bytes, cps those read so far.
RECURSIVE utf8(_, _)
utf8(bytes, cps) ==
  IF bytes = <<>> THEN [kind |-> "ok", val |-> cps] ELSE
  CASE bytes[1] < 128 -> utf8(Drop(bytes, 1), Append(cps, bytes[1]))
    [] /\ bytes[1] >= 194 /\ bytes[1] <= 223
       /\ Len(bytes) >= 2 /\ is_cont(bytes[2]) ->
         utf8(Drop(bytes, 2),
              Append(cps, (bytes[1] - 192) * 64 + (bytes[2] - 128)))
    [] /\ bytes[1] >= 224 /\ bytes[1] <= 239
       /\ Len(bytes) >= 3 /\ is_cont(bytes[2]) /\ is_cont(bytes[3])
       /\ (bytes[1] = 224 => bytes[2] >= 160)
       /\ (bytes[1] = 237 => bytes[2] <= 159) ->
         utf8(Drop(bytes, 3),
              Append(cps, (bytes[1] - 224) * 4096 + (bytes[2] - 128) * 64
                            + (bytes[3] - 128)))
    [] /\ bytes[1] >= 240 /\ bytes[1] <= 244
       /\ Len(bytes) >= 4
       /\ is_cont(bytes[2]) /\ is_cont(bytes[3]) /\ is_cont(bytes[4])
       /\ (bytes[1] = 240 => bytes[2] >= 144)
       /\ (bytes[1] = 244 => bytes[2] <= 143) ->
         utf8(Drop(bytes, 4),
              Append(cps, (bytes[1] - 240) * 262144 + (bytes[2] - 128) * 4096
                            + (bytes[3] - 128) * 64 + (bytes[4] - 128)))
    [] OTHER -> Known("Invalid UTF-8")

\* The charset parameter of an entity; US-ASCII when there is none.
charset(raw) ==
  IF "charset" \in DOMAIN raw.parameters
    THEN raw.parameters["charset"]
    ELSE "us-ascii"

\* The text of a Text entity in a supported charset: UTF-8 strictly, US-ASCII
\* as a subset of UTF-8, ISO-8859-1 byte for byte.
decode_text(raw) ==
  CASE charset(raw) \in {"utf-8", "us-ascii"} ->
         Try(utf8(raw.value, <<>>), LAMBDA t : Resolved(Text(raw.subtype, t.val)))
    [] charset(raw) = "iso-8859-1" -> Resolved(Text(raw.subtype, raw.value))
    [] OTHER -> Resolved(Unknown(raw))

\* A variant of entity that takes an unrecognised type for an error.
entity_rejecting_other(raw) ==
  CASE raw.mime_type.variant = "Multipart" ->
         IF "boundary" \notin DOMAIN raw.parameters
           THEN Known("Missing boundary parameter")
           ELSE Try(parse_multipart(raw.value, raw.parameters["boundary"]),
                    LAMBDA parts : Resolved(Multipart(raw.subtype, parts.val)))
    [] raw.mime_type.variant = "Text" -> decode_text(raw)
    [] raw.mime_type.variant = "Other" -> Known("Unknown mime type")
    [] OTHER -> Resolved(Unknown(raw))

entity(raw) ==
  CASE raw.mime_type.variant = "Multipart" ->
         IF "boundary" \notin DOMAIN raw.parameters
           THEN Known("Missing boundary parameter")
           ELSE Try(parse_multipart(raw.value, raw.parameters["boundary"]),
                    LAMBDA parts : Resolved(Multipart(raw.subtype, parts.val)))
    [] raw.mime_type.variant = "Text" -> decode_text(raw)
    [] OTHER -> Resolved(Unknown(raw))

\* RawEntity::parse
RawEntity_parse(raw) == entity(raw)

(***************************************************************************)
(* The inputs: byte strings a caller may hand to a rule.  Each family      *)
(* spells the tokens of one rule, well formed and malformed; every prefix  *)
(* of a string of a family is an input too (an input truncated anywhere),  *)
(* and so is every string of at most MaxArb bytes of ArbBytes.             *)
(***************************************************************************)
\* Longest string of arbitrary bytes among the inputs.
MaxArb == 3

\* Number of leading zeros written before a year.
MaxPad == 18

Prefixes(s) == {Take(s, n) : n \in 0..Len(s)}

\* The strings a . b for a in A, b in B
Cat(A, C) == {a \o c : a \in A, c \in C}

RECURSIVE Zeros(_)
Zeros(n) == IF n = 0 THEN <<>> ELSE <<48>> \o Zeros(n - 1)

\* Every spelling of a lower-case name in upper and lower case.
CaseMixes(arm) ==
  {[i \in DOMAIN arm |-> IF i \in up THEN arm[i] - 32 ELSE arm[i]] :
     up \in SUBSET DOMAIN arm}

\* No names, or names with something around them:
\*   "xyz" "m0n" "jan." "ma" "Mon," " thu," " Sun"
NotNames ==
  { <<120, 121, 122>>,
    <<109, 48, 110>>,
    <<106, 97, 110, 46>>,
    <<109, 97>>,
    <<77, 111, 110, 44>>,
    <<32, 116, 104, 117, 44>>,
    <<32, 83, 117, 110>> }

NameInputs ==
  LET names == UNION {CaseMixes(DayNames[i][1]) : i \in DOMAIN DayNames}
                 \cup UNION {CaseMixes(MonthNames[i][1]) : i \in DOMAIN MonthNames}
  IN  Cat(names, {<<>>, <<32>>, <<44, 32>>}) \cup NotNames

\* What stands before a year:
\*   "" " " "\r\n " "\t"
FwsBefore ==
  { <<>>,
    <<32>>,
    <<13, 10, 32>>,
    <<9>> }

\* Digit runs of a year; 18446744073709551615 is usize::MAX:
\*   "" "999" "0999" "1989" "1990" "2023" "250032" "01990" "20x3"
\*   "18446744073709551615" "18446744073709551616" "99999999999999999999"
\*   "100000000000000000000"
YearRuns ==
  { <<>>,
    <<57, 57, 57>>,
    <<48, 57, 57, 57>>,
    <<49, 57, 56, 57>>,
    <<49, 57, 57, 48>>,
    <<50, 48, 50, 51>>,
    <<50, 53, 48, 48, 51, 50>>,
    <<48, 49, 57, 57, 48>>,
    <<50, 48, 120, 51>>,
    <<49, 56, 52, 52, 54, 55, 52, 52, 48, 55, 51, 55, 48, 57, 53, 53, 49, 54, 49, 53>>,
    <<49, 56, 52, 52, 54, 55, 52, 52, 48, 55, 51, 55, 48, 57, 53, 53, 49, 54, 49, 54>>,
    <<57, 57, 57, 57, 57, 57, 57, 57, 57, 57, 57, 57, 57, 57, 57, 57, 57, 57, 57, 57>>,
    <<49, 48, 48, 48, 48, 48, 48, 48, 48, 48, 48, 48, 48, 48, 48, 48, 48, 48, 48, 48, 48>> }

\* What stands after a year:
\*   "" " " " x" "\r\n\t7"
YearAfter ==
  { <<>>,
    <<32>>,
    <<32, 120>>,
    <<13, 10, 9, 55>> }

\* The digit runs, and 1990 and 1989 after MaxPad zeros
YearDigits ==
  YearRuns \cup {Zeros(MaxPad) \o <<49, 57, 57, 48>>, Zeros(MaxPad) \o <<49, 57, 56, 57>>}

YearInputs == Cat(FwsBefore, Cat(YearDigits, YearAfter))

\* Digits of a day of the month:
\*   "" "0" "00" "1" "5" "05" "12" "31" "32" "99" "9x" "x"
DayDigits ==
  { <<>>,
    <<48>>,
    <<48, 48>>,
    <<49>>,
    <<53>>,
    <<48, 53>>,
    <<49, 50>>,
    <<51, 49>>,
    <<51, 50>>,
    <<57, 57>>,
    <<57, 120>>,
    <<120>> }

\* What stands after a day:
\*   "" " " "\r\n " "Apr"
DayAfter ==
  { <<>>,
    <<32>>,
    <<13, 10, 32>>,
    <<65, 112, 114>> }

DayInputs == Cat({<<>>, <<32>>}, Cat(DayDigits, DayAfter))

\* Hours:
\*   "00" "10" "23" "24" "99" "1" "x0"
Hours ==
  { <<48, 48>>,
    <<49, 48>>,
    <<50, 51>>,
    <<50, 52>>,
    <<57, 57>>,
    <<49>>,
    <<120, 48>> }

\* Minutes, with the colon before them:
\*   ":00" ":25" ":59" ":60" ":6" "25"
Minutes ==
  { <<58, 48, 48>>,
    <<58, 50, 53>>,
    <<58, 53, 57>>,
    <<58, 54, 48>>,
    <<58, 54>>,
    <<50, 53>> }

\* Seconds groups, absent, well formed and malformed:
\*   "" " " ":03" ":60" ":61" ":99" ":" ":0" ":x3" ":3x" ":03 +0000"
Seconds ==
  { <<>>,
    <<32>>,
    <<58, 48, 51>>,
    <<58, 54, 48>>,
    <<58, 54, 49>>,
    <<58, 57, 57>>,
    <<58>>,
    <<58, 48>>,
    <<58, 120, 51>>,
    <<58, 51, 120>>,
    <<58, 48, 51, 32, 43, 48, 48, 48, 48>> }

TimeOfDayInputs == Cat(Hours, Cat(Minutes, Seconds))

\* What stands before a zone:
\*   "" " " "\r\n "
ZoneFws ==
  { <<>>,
    <<32>>,
    <<13, 10, 32>> }

\* Sign characters:
\*   "+" "-" "*" "0" ""
ZoneSigns ==
  { <<43>>,
    <<45>>,
    <<42>>,
    <<48>>,
    <<>> }

\* Zone hours:
\*   "00" "10" "99" "9"
ZoneHours ==
  { <<48, 48>>,
    <<49, 48>>,
    <<57, 57>>,
    <<57>> }

\* Zone minutes:
\*   "00" "23" "59" "60" "99" "0" "" "00 "
ZoneMinutes ==
  { <<48, 48>>,
    <<50, 51>>,
    <<53, 57>>,
    <<54, 48>>,
    <<57, 57>>,
    <<48>>,
    <<>>,
    <<48, 48, 32>> }

ZoneInputs == Cat(ZoneFws, Cat(ZoneSigns, Cat(ZoneHours, ZoneMinutes)))

\* Weekday prefixes of a date-time:
\*   "" " " "Mon, " "mon " " Sun," "Xyz, "
Weekdays ==
  { <<>>,
    <<32>>,
    <<77, 111, 110, 44, 32>>,
    <<109, 111, 110, 32>>,
    <<32, 83, 117, 110, 44>>,
    <<88, 121, 122, 44, 32>> }

\* Dates:
\*   "12 Apr 2023 " "5 May 2003 " "0 Jan 2020 " "32 Jan 2020 " "1 Jan 1989 "
\*   "12 Apr 2023"
Dates ==
  { <<49, 50, 32, 65, 112, 114, 32, 50, 48, 50, 51, 32>>,
    <<53, 32, 77, 97, 121, 32, 50, 48, 48, 51, 32>>,
    <<48, 32, 74, 97, 110, 32, 50, 48, 50, 48, 32>>,
    <<51, 50, 32, 74, 97, 110, 32, 50, 48, 50, 48, 32>>,
    <<49, 32, 74, 97, 110, 32, 49, 57, 56, 57, 32>>,
    <<49, 50, 32, 65, 112, 114, 32, 50, 48, 50, 51>> }

\* Times:
\*   "10:25:03 +0000" "18:59:03 +0000" "10:25 -0523" "23:59:60 +9900"
\*   "10:25: +0000" "24:00 +0000" "10:25:03"
Times ==
  { <<49, 48, 58, 50, 53, 58, 48, 51, 32, 43, 48, 48, 48, 48>>,
    <<49, 56, 58, 53, 57, 58, 48, 51, 32, 43, 48, 48, 48, 48>>,
    <<49, 48, 58, 50, 53, 32, 45, 48, 53, 50, 51>>,
    <<50, 51, 58, 53, 57, 58, 54, 48, 32, 43, 57, 57, 48, 48>>,
    <<49, 48, 58, 50, 53, 58, 32, 43, 48, 48, 48, 48>>,
    <<50, 52, 58, 48, 48, 32, 43, 48, 48, 48, 48>>,
    <<49, 48, 58, 50, 53, 58, 48, 51>> }

\* What follows a date-time:
\*   "" " " " (c)" "(a(b)) " " x"
Trailers ==
  { <<>>,
    <<32>>,
    <<32, 40, 99, 41>>,
    <<40, 97, 40, 98, 41, 41, 32>>,
    <<32, 120>> }

DateTimeInputs == Cat(Weekdays, Cat(Dates, Cat(Times, Trailers)))

\* The date-times of the test suite (test_date):
\*   "Mon, 12 Apr 2023 10:25:03 +0000" "5 May 2003 18:59:03 +0000"
TestDateTimes ==
  { <<77, 111, 110, 44, 32, 49, 50, 32, 65, 112, 114, 32, 50, 48, 50, 51, 32, 49, 48, 58, 50, 53, 58, 48, 51, 32, 43, 48, 48, 48, 48>>,
    <<53, 32, 77, 97, 121, 32, 50, 48, 48, 51, 32, 49, 56, 58, 53, 57, 58, 48, 51, 32, 43, 48, 48, 48, 48>> }

\* "1", ":", " ", "+", "m", "\r"
ArbBytes == <<49, 58, 32, 43, 109, 13>>

RECURSIVE ArbStrings(_)
ArbStrings(n) ==
  IF n = 0 THEN {<<>>}
  ELSE LET shorter == ArbStrings(n - 1)
       IN  shorter \cup {Append(s, ArbBytes[i]) : s \in shorter, i \in DOMAIN ArbBytes}

Inputs ==
  UNION {Prefixes(s) :
           s \in NameInputs \cup YearInputs \cup DayInputs \cup TimeOfDayInputs
                   \cup ZoneInputs \cup TestDateTimes}
    \cup DateTimeInputs \cup ArbStrings(MaxArb)

(***************************************************************************)
(* The state machine: a caller holds an input slice, applies one rule of   *)
(* the grammar to it, and may go on with the bytes a successful rule left. *)
(***************************************************************************)
VARIABLES
  input,     \* the slice the caller holds
  rule,      \* the rule applied to it last
  res,       \* the rule's result
  pc,        \* "ready" before a rule is applied, "done" after
  raw,       \* the RawEntity a caller of the MIME engine holds
  resolved,  \* the result of RawEntity::parse on it
  mpc        \* "raw" before the entity is resolved, "resolved" after

tvars == <<input, rule, res, pc>>

mvars == <<raw, resolved, mpc>>

vars == <<input, rule, res, pc, raw, resolved, mpc>>

NoRes == [kind |-> "none"]

\* No date-time is being parsed.
TimeIdle == input = <<>> /\ rule = "none" /\ res = NoRes /\ pc = "idle"

\* No entity is being resolved.
MimeIdle == raw = None /\ resolved = NoRes /\ mpc = "idle"

Init ==
  /\ input \in Inputs
  /\ rule = "none"
  /\ res = NoRes
  /\ pc = "ready"
  /\ MimeIdle

\* The caller applies the rule named name, whose result on the input is r.
Apply(name, r) ==
  /\ pc = "ready"
  /\ rule' = name
  /\ res' = r
  /\ pc' = "done"
  /\ UNCHANGED <<input, mvars>>

CallDayName == Apply("day_name", day_name(input))

CallMonth == Apply("month", month(input))

CallDayOfWeek == Apply("day_of_week", day_of_week(input))

CallYear == Apply("year", year(input))

CallDay == Apply("day", day(input))

CallTimeOfDay == Apply("time_of_day", time_of_day(input))

CallZone == Apply("zone", zone(input))

CallTime == Apply("time", time(input))

CallDate == Apply("date", date(input))

CallDateTime == Apply("date_time", date_time(input))

\* let (input, value) = rule(input)?; the caller goes on with what is left.
Advance ==
  /\ pc = "done"
  /\ IsOk(res)
  /\ input' = res.rest
  /\ rule' = "none"
  /\ res' = NoRes
  /\ pc' = "ready"
  /\ UNCHANGED mvars

Next ==
  \/ CallDayName
  \/ CallMonth
  \/ CallDayOfWeek
  \/ CallYear
  \/ CallDay
  \/ CallTimeOfDay
  \/ CallZone
  \/ CallTime
  \/ CallDate
  \/ CallDateTime
  \/ Advance

Spec == Init /\ [][Next]_vars

(***************************************************************************)
(* The MIME engine: a caller holds a RawEntity, resolves it, and may go on *)
(* with a child of a multipart entity.                                     *)
(***************************************************************************)
\* The names of unrecognised types.
OtherTypeNames == {"x-custom", "chemical"}

MimeTypes ==
  {MimeType(v) : v \in MimeTypeTags \ {"Other"}} \cup {Other(n) : n \in OtherTypeNames}

\* Parameter mappings (keys in lower case): none, a boundary "X", a charset,
\* a boundary and a charset.
Charsets == {"utf-8", "iso-8859-1", "koi8-r"}

ParameterMaps ==
  {<<>>, [k \in {"boundary"} |-> <<88>>]}
    \cup {[k \in {"charset"} |-> c] : c \in Charsets}
    \cup {[k \in {"boundary", "charset"} |-> IF k = "boundary" THEN <<88>> ELSE c] :
            c \in Charsets}

\* Bodies: b"hi", "e" with an acute accent in UTF-8 and in ISO-8859-1, a
\* truncated UTF-8 sequence, and multipart bodies of boundary "X": two
\* sections b"A" and b"B", no section, no closing delimiter, no delimiter.
Values ==
  { <<104, 105>>,
    <<195, 169>>,
    <<233>>,
    <<104, 195>>,
    <<45, 45, 88, 13, 10, 65, 13, 10, 45, 45, 88, 13, 10, 66, 13, 10, 45, 45,
      88, 45, 45>>,
    <<45, 45, 88, 45, 45>>,
    <<45, 45, 88, 13, 10, 65>>,
    <<>> }

RawEntities ==
  {RawEntity(t, st, d, i, p, v, h) :
     t \in MimeTypes, st \in {"plain", "mixed"}, d \in {None, Some("a photo")},
     i \in {None}, p \in ParameterMaps, v \in Values,
     h \in {<<>>, << <<"x-mailer", "mutt">> >>}}

InitMime ==
  /\ TimeIdle
  /\ raw \in RawEntities
  /\ resolved = NoRes
  /\ mpc = "raw"

\* raw.parse()
Parse ==
  /\ mpc = "raw"
  /\ resolved' = RawEntity_parse(raw)
  /\ mpc' = "resolved"
  /\ UNCHANGED <<raw, tvars>>

\* The caller goes on with a child of a multipart entity.
Descend ==
  /\ mpc = "resolved"
  /\ IsOk(resolved)
  /\ resolved.val.variant = "Multipart"
  /\ \E k \in DOMAIN resolved.val.content :
       raw' = resolved.val.content[k]
  /\ resolved' = NoRes
  /\ mpc' = "raw"
  /\ UNCHANGED tvars

NextMime == Parse \/ Descend

SpecMime == InitMime /\ [][NextMime]_vars

(***************************************************************************)
(* What the claims speak of                                                *)
(***************************************************************************)
\* The caller has applied the rule named name to input; res is its result.
Done(name) == pc = "done" /\ rule = name

\* Two decimal digits stand at positions k and k + 1 of s; their value.
HasTwoDigits(s, k) == Len(s) >= k + 1 /\ is_digit(s[k]) /\ is_digit(s[k + 1])

TwoDigitsAt(s, k) == (s[k] - 48) * 10 + (s[k + 1] - 48)

\* s is t with some prefix removed.
IsSuffix(s, t) == Len(s) <= Len(t) /\ s = Drop(t, Len(t) - Len(s))

\* a <= b for two naturals given by their digits
NatLeq(a, b) == ~NatLess(b, a)

(***************************************************************************)
(* C1: year.  The input is read as folding whitespace, a digit run, and    *)
(* what follows the run.                                                   *)
(***************************************************************************)
YearLead == fws(input)

YearRun == take_while(YearLead.rest, is_digit)

\* The value of the digit run (a run of at least one digit).
YearValue == StripZeros([i \in DOMAIN YearRun.val |-> YearRun.val[i] - 48])

\* The run is shorter than 4 digits, or its value is below 1990.
YearTooSmall ==
  /\ IsOk(YearLead)
  /\ \/ Len(YearRun.val) < 4
     \/ NatLess(YearValue, Usize(1990))

\* Folding whitespace, 4 digits or more of a value of at least 1990, folding
\* whitespace.
YearWellFormed ==
  /\ IsOk(YearLead)
  /\ Len(YearRun.val) >= 4
  /\ NatLeq(Usize(1990), YearValue)
  /\ IsOk(fws(YearRun.rest))

\* C1 as claimed: year accepts every digit run of 4 or more digits whose
\* value is at least 1990, between folding whitespace, and returns the
\* value, however many digits there are; it rejects every run shorter than 4
\* digits and every value below 1990.
C1_YearAnyLength ==
  Done("year") =>
    /\ YearWellFormed => IsOk(res) /\ res.val = YearValue
    /\ YearTooSmall => IsErr(res)

\* C1 as amended: year accepts a digit run of 4 or more digits, between
\* folding whitespace, exactly when its value is at least 1990 and at most
\* usize::MAX, and returns the value and what follows the whitespace; a value
\* above usize::MAX is rejected with Known("Failed to parse year").  Leading
\* zeros count as digits, so the number of digits alone rejects nothing.
C1_YearUpToUsizeMax ==
  Done("year") =>
    /\ IsOk(res) <=> (YearWellFormed /\ NatLeq(YearValue, USIZE_MAX))
    /\ IsOk(res) => res.val = YearValue /\ res.rest = fws(YearRun.rest).rest
    /\ YearTooSmall => IsErr(res)
    /\ (IsOk(YearLead) /\ Len(YearRun.val) >= 4 /\ NatLess(USIZE_MAX, YearValue))
         => res = Known("Failed to parse year")

\* year has accepted a run of more than 20 digits (usize::MAX has 20).
C1_Witness ==
  Done("year") /\ IsOk(res) /\ Len(YearRun.val) > 20

(***************************************************************************)
(* C2: the day of the month and the year of a Date                         *)
(***************************************************************************)
\* The Date of a successful date or date_time.
DateOf == IF rule = "date" THEN res.val ELSE res.val[2]

\* C2: every Date returned by a successful date or date_time has a day of
\* the month between 1 and 31 and a year of at least 1990.
C2_DateInRange ==
  ((Done("date") \/ Done("date_time")) /\ IsOk(res)) =>
    /\ DateOf[1] >= 1
    /\ DateOf[1] <= 31
    /\ NatLeq(Usize(1990), DateOf[3])

(***************************************************************************)
(* C3, C10: time_of_day                                                    *)
(***************************************************************************)
\* The input starts with HH:MM, HH at most 23 and MM at most 59.
HourMinute ==
  /\ HasTwoDigits(input, 1) /\ TwoDigitsAt(input, 1) <= 23
  /\ Len(input) >= 3 /\ input[3] = 58
  /\ HasTwoDigits(input, 4) /\ TwoDigitsAt(input, 4) <= 59

\* A colon follows the minutes.
ColonAfterMinutes == Len(input) >= 6 /\ input[6] = 58

\* C3: time_of_day fails when the hour is above 23, when the minute is above
\* 59 and when a well-formed :SS group is above 60; it succeeds with second
\* 60; without a colon after the minutes it succeeds with second 0; every
\* successful result has hour 0..23, minute 0..59, second 0..60.
C3_TimeOfDay ==
  Done("time_of_day") =>
    /\ (HasTwoDigits(input, 1) /\ TwoDigitsAt(input, 1) > 23) => IsErr(res)
    /\ (/\ HasTwoDigits(input, 1) /\ Len(input) >= 3 /\ input[3] = 58
        /\ HasTwoDigits(input, 4) /\ TwoDigitsAt(input, 4) > 59) => IsErr(res)
    /\ (HourMinute /\ ColonAfterMinutes /\ HasTwoDigits(input, 7)) =>
         IF TwoDigitsAt(input, 7) > 60
           THEN IsErr(res)
           ELSE res = Ok(Drop(input, 8),
                         <<TwoDigitsAt(input, 1), TwoDigitsAt(input, 4),
                           TwoDigitsAt(input, 7)>>)
    /\ (HourMinute /\ ~ColonAfterMinutes) =>
         res = Ok(Drop(input, 5),
                  <<TwoDigitsAt(input, 1), TwoDigitsAt(input, 4), 0>>)
    /\ IsOk(res) =>
         /\ res.val[1] \in 0..23
         /\ res.val[2] \in 0..59
         /\ res.val[3] \in 0..60

\* time_of_day has accepted a leap second.
C3_Witness ==
  Done("time_of_day") /\ IsOk(res) /\ res.val[3] = 60

\* C10: when a colon follows the minutes but two digits do not follow the
\* colon, time_of_day succeeds with second 0 and leaves the colon and what
\* follows it unconsumed.
C10_MalformedSeconds ==
  (Done("time_of_day") /\ HourMinute /\ ColonAfterMinutes
     /\ ~HasTwoDigits(input, 7)) =>
    /\ res = Ok(Drop(input, 5),
                <<TwoDigitsAt(input, 1), TwoDigitsAt(input, 4), 0>>)
    /\ res.rest[1] = 58

\* time_of_day has met a colon followed by one digit only.
C10_Witness ==
  /\ Done("time_of_day") /\ HourMinute /\ ColonAfterMinutes
  /\ Len(input) = 7 /\ is_digit(input[7])
  /\ IsOk(res)

(***************************************************************************)
(* C4: zone                                                                *)
(***************************************************************************)
ZoneLead == fws(input)

\* After the folding whitespace stand a sign and four digits.
ZoneSignDigits ==
  /\ IsOk(ZoneLead)
  /\ Len(ZoneLead.rest) >= 1 /\ ZoneLead.rest[1] \in {43, 45}
  /\ HasTwoDigits(ZoneLead.rest, 2)
  /\ HasTwoDigits(ZoneLead.rest, 4)

\* C4: zone requires leading folding whitespace; it fails with a Known error
\* when the next byte is missing or is neither + nor -, and when the minute
\* offset is above 59; otherwise it returns (sign, hours, minutes), sign true
\* for +, whatever the two-digit hour offset is.
C4_Zone ==
  Done("zone") =>
    /\ ~IsOk(ZoneLead) => IsErr(res)
    /\ (IsOk(ZoneLead) /\ ZoneLead.rest = <<>>) =>
         (IsErr(res) /\ res.err = "Known")
    /\ (IsOk(ZoneLead) /\ ZoneLead.rest # <<>> /\ ZoneLead.rest[1] \notin {43, 45}) =>
         (IsErr(res) /\ res.err = "Known")
    /\ ZoneSignDigits =>
         IF TwoDigitsAt(ZoneLead.rest, 4) > 59
           THEN IsErr(res) /\ res.err = "Known"
           ELSE res = Ok(Drop(ZoneLead.rest, 5),
                         <<ZoneLead.rest[1] = 43, TwoDigitsAt(ZoneLead.rest, 2),
                           TwoDigitsAt(ZoneLead.rest, 4)>>)

\* zone has accepted an hour offset of 99.
C4_Witness ==
  Done("zone") /\ IsOk(res) /\ res.val[2] = 99 /\ ~res.val[1]

(***************************************************************************)
(* C5: day_name and month                                                  *)
(***************************************************************************)
\* The letters are the lower-case name, each letter in either case.
SpellsName(letters, name) ==
  /\ Len(letters) = Len(name)
  /\ \A i \in DOMAIN name : letters[i] = name[i] \/ letters[i] = name[i] - 32

\* The arms whose name the first 3 bytes of the input spell.
Spelled(arms) ==
  {i \in DOMAIN arms : Len(input) >= 3 /\ SpellsName(Take(input, 3), arms[i][1])}

NameRule(arms) ==
  IF Spelled(arms) # {}
    THEN /\ IsOk(res)
         /\ \A i \in Spelled(arms) : res.val = arms[i][2]
         /\ res.rest = Drop(input, 3)
    ELSE IsErr(res) /\ res.err = "Known"

\* C5: for a weekday or month abbreviation in any mix of cases, day_name
\* and month return the matching enumerator and the input without its first
\* 3 bytes; on a shorter input or on other letters they fail with a Known
\* error.
C5_Names ==
  /\ Done("day_name") => NameRule(DayNames)
  /\ Done("month") => NameRule(MonthNames)

\* month has matched a name written with an upper-case letter inside it.
C5_Witness ==
  Done("month") /\ IsOk(res) /\ res.val = "June" /\ input[2] = 85

(***************************************************************************)
(* C6: date_time                                                           *)
(***************************************************************************)
\* The weekday attempt on the original input, and where date starts.
Weekday == day_of_week(input)

DateStart == IF IsOk(Weekday) THEN Weekday.rest ELSE input

DatePart == date(DateStart)

TimePart == time(DatePart.rest)

\* b"Mon, 12 Apr 2023 10:25:03 +0000"
Example1 ==
  << 77, 111, 110, 44, 32, 49, 50, 32, 65, 112, 114, 32, 50, 48, 50, 51, 32,
     49, 48, 58, 50, 53, 58, 48, 51, 32, 43, 48, 48, 48, 48 >>

\* b"5 May 2003 18:59:03 +0000"
Example2 ==
  << 53, 32, 77, 97, 121, 32, 50, 48, 48, 51, 32, 49, 56, 58, 53, 57, 58, 48,
     51, 32, 43, 48, 48, 48, 48 >>

\* C6: date_time is an optional day_of_week, then date, then time, then an
\* optional comment or whitespace; the weekday is Some(d) exactly when
\* day_of_week succeeds on the original input, and otherwise None with date
\* applied to the original input; the two date-times of the test suite give
\* the values the claim names.
C6_DateTime ==
  Done("date_time") =>
    /\ IsOk(res) <=> (IsOk(DatePart) /\ IsOk(TimePart))
    /\ IsOk(res) =>
         /\ res.val[1] = (IF IsOk(Weekday) THEN Some(Weekday.val) ELSE None)
         /\ res.val[2] = DatePart.val
         /\ res.val[3] = TimePart.val
         /\ res.rest = optional(TimePart.rest, cfws).rest
    /\ input = Example1 =>
         res = Ok(<<>>, << Some("Monday"), <<12, "April", Usize(2023)>>,
                           <<<<10, 25, 3>>, <<TRUE, 0, 0>>>> >>)
    /\ input = Example2 =>
         res = Ok(<<>>, << None, <<5, "May", Usize(2003)>>,
                           <<<<18, 59, 3>>, <<TRUE, 0, 0>>>> >>)

\* date_time has succeeded without a weekday.
C6_Witness ==
  Done("date_time") /\ IsOk(res) /\ input = Example2 /\ res.val[1] = None

(***************************************************************************)
(* C7: no rule aborts                                                      *)
(***************************************************************************)
\* C7: on every input, the empty one and the truncated ones included, each
\* rule ends with a success or an Error value: no slice index is out of
\* range and no sum overflows.
C7_NoPanic == pc = "done" => res.kind \in {"ok", "err"}

\* zone has met the end of the input right after the folding whitespace.
C7_Witness ==
  Done("zone") /\ IsOk(ZoneLead) /\ ZoneLead.rest = <<>> /\ IsErr(res)

(***************************************************************************)
(* C8: the remaining bytes                                                 *)
(***************************************************************************)
\* C8: the remaining bytes of every successful rule are a suffix of its
\* input.
C8_Suffix == (pc = "done" /\ IsOk(res)) => IsSuffix(res.rest, input)

\* date_time has succeeded after its weekday attempt consumed whitespace,
\* failed and was rewound.
C8_Witness ==
  /\ Done("date_time") /\ IsOk(res) /\ res.val[1] = None
  /\ IsOk(fws(input))
  /\ IsSuffix(res.rest, input)

(***************************************************************************)
(* C9: unrecognised types                                                  *)
(***************************************************************************)
\* C9: resolving a RawEntity of an unrecognised type Other(name) returns
\* Entity::Unknown with the RawEntity as it was, every field unchanged; an
\* error is returned only for an entity of a supported kind (multipart or
\* text).
C9_UnknownNotError ==
  mpc = "resolved" =>
    /\ raw.mime_type.variant = "Other" => resolved = Resolved(Unknown(raw))
    /\ IsErr(resolved) => raw.mime_type.variant \in {"Multipart", "Text"}

\* An entity of type Other("x-custom"), with parameters and a body that a
\* multipart or text entity would be rejected for, has been resolved.
C9_Witness ==
  /\ mpc = "resolved"
  /\ raw.mime_type = Other("x-custom")
  /\ raw.value = <<104, 195>>
  /\ "charset" \in DOMAIN raw.parameters /\ raw.parameters["charset"] = "utf-8"
  /\ IsOk(resolved) /\ resolved.val.variant = "Unknown"

====
